---- MODULE Spec2Model ----
(***************************************************************************)
(* Model of the command registry of lbq (class LBQ and class Action of     *)
(* src/scripts/postbuild.ts): register() builds Actions from its argument  *)
(* list, find() selects the first longest matching Action for an argv.     *)
(*                                                                         *)
(* JavaScript values are records [t, s, n]: t is the typeof/class tag, s   *)
(* the characters of a string (a sequence of one-character strings), n the *)
(* identity of a function, a regular expression or an object, or the value *)
(* of a number.                                                            *)
(***************************************************************************)
EXTENDS Integers, Sequences, FiniteSets, TLC

VARIABLES actions, call, outcome, lastIndex, invoked, exitCode, config

vars == <<actions, call, outcome, lastIndex, invoked, exitCode, config>>

----------------------------------------------------------------------------
(* Bounds of the model. *)

\* Spec: the registry holds at most MaxActions actions.
MaxActions == 2
\* SpecReg: register() is called with at most MaxArgs plain arguments.
MaxArgs == 3
\* find() is called with at most MaxArgv tokens.
MaxArgv == 2
\* SpecReg: the registry holds at most MaxRegistered actions.
MaxRegistered == 1
MaxCommands == 2
MaxParseArgs == 2

----------------------------------------------------------------------------
(* JavaScript values. *)

Str(s) == [t |-> "string", s |-> s, n |-> 0]
Re(k) == [t |-> "regexp", s |-> <<>>, n |-> k]
Fn(k) == [t |-> "function", s |-> <<>>, n |-> k]
Num(k) == [t |-> "number", s |-> <<>>, n |-> k]
Obj(k) == [t |-> "object", s |-> <<>>, n |-> k]
Undefined == [t |-> "undefined", s |-> <<>>, n |-> 0]

\* `!first`: undefined, the empty string and 0 are falsy.
IsFalsy(v) ==
  \/ v.t = "undefined"
  \/ v.t = "string" /\ v.s = <<>>
  \/ v.t = "number" /\ v.n = 0

\* typeof a === 'string' || a instanceof RegExp
IsStringOrRegExp(v) == v.t \in {"string", "regexp"}

\* args[i] with JavaScript's 0-based index: undefined past the end.
At(args, i) == IF i < Len(args) THEN args[i + 1] ELSE Undefined

\* String.prototype.toLowerCase on the characters of the model.
LowerChar(c) ==
  CASE c = "A" -> "a"
    [] c = "B" -> "b"
    [] OTHER -> c

toLowerCase(s) == [i \in DOMAIN s |-> LowerChar(s[i])]

----------------------------------------------------------------------------
(* Regular expressions of the model, by identity:                          *)
(*   1  /.+/      any non-empty token, the match is the whole token        *)
(*   2  /b/       the first "b" of the token, the match is "b"             *)
(*   3  /^a(.)$/  "a" and one more character; groups: token, the character *)
(*   4  /a/y      sticky: "a" at index lastIndex of the token             *)
(* input.match(re) is the match array (whole match, then the groups) or    *)
(* null.  Only the sticky RegExp has a state, its lastIndex.               *)

NoMatch == [found |-> FALSE, groups |-> <<>>]

StringMatch(input, re) ==
  CASE re.n = 1 ->
         IF Len(input) >= 1
         THEN [found |-> TRUE, groups |-> <<input>>]
         ELSE NoMatch
    [] re.n = 2 ->
         IF \E i \in DOMAIN input : input[i] = "b"
         THEN [found |-> TRUE, groups |-> << <<"b">> >>]
         ELSE NoMatch
    [] re.n = 3 ->
         IF Len(input) = 2 /\ input[1] = "a"
         THEN [found |-> TRUE, groups |-> <<input, <<input[2]>> >>]
         ELSE NoMatch
    [] OTHER -> NoMatch

\* input.match(/a/y) with lastIndex = last: the match is tried at that index
\* alone; lastIndex becomes the end of the match, or 0 when there is none.
StickyMatch(input, last) ==
  IF last < Len(input) /\ input[last + 1] = "a"
  THEN [found |-> TRUE, groups |-> << <<"a">> >>, last |-> last + 1]
  ELSE [found |-> FALSE, groups |-> <<>>, last |-> 0]

\* input.match(re): [found, groups, last].  A RegExp without the g and y
\* flags matches from index 0 and leaves no state.
RegExpMatch(input, re, last) ==
  IF re.n = 4 THEN StickyMatch(input, last)
  ELSE [found |-> StringMatch(input, re).found,
        groups |-> StringMatch(input, re).groups,
        last |-> last]

----------------------------------------------------------------------------
(* class Action.  pattern is [isArray, items]: a lone string or RegExp is  *)
(* isArray = FALSE with one item, an array is isArray = TRUE with its      *)
(* elements.                                                               *)

Single(p) == [isArray |-> FALSE, items |-> <<p>>]
Array(ps) == [isArray |-> TRUE, items |-> ps]

\* run.toString().replace(/\s+/g, ' ').trim(): a text that names the function.
FunctionText(run) == [t |-> "string", s |-> <<"f">>, n |-> run.n]

\* new Action(pattern, run, description)
Action(pattern, run, description) ==
  [pattern |-> pattern,
   run |-> run,
   description |-> IF IsFalsy(description) THEN FunctionText(run) ELSE description]

\* get length()
length(action) ==
  IF action.pattern.isArray THEN Len(action.pattern.items) ELSE 1

\* A missing token passes for a match.
notMatch_missingInput(input, pattern, out, last) ==
  IF input.t = "undefined" THEN [result |-> FALSE, out |-> out, last |-> last]
  ELSE IF pattern.t = "string"
       THEN IF toLowerCase(input.s) = toLowerCase(pattern.s)
            THEN [result |-> FALSE, out |-> Append(out, <<input.s>>), last |-> last]
            ELSE [result |-> TRUE, out |-> out, last |-> last]
       ELSE LET match == RegExpMatch(input.s, pattern, last)
            IN IF match.found
               THEN [result |-> FALSE, out |-> Append(out, match.groups),
                     last |-> match.last]
               ELSE [result |-> TRUE, out |-> out, last |-> match.last]

\* The literal is compared with the token as they are written.
notMatch_caseSensitive(input, pattern, out, last) ==
  IF input.t = "undefined" THEN [result |-> TRUE, out |-> out, last |-> last]
  ELSE IF pattern.t = "string"
       THEN IF input.s = pattern.s
            THEN [result |-> FALSE, out |-> Append(out, <<input.s>>), last |-> last]
            ELSE [result |-> TRUE, out |-> out, last |-> last]
       ELSE LET match == RegExpMatch(input.s, pattern, last)
            IN IF match.found
               THEN [result |-> FALSE, out |-> Append(out, match.groups),
                     last |-> match.last]
               ELSE [result |-> TRUE, out |-> out, last |-> match.last]

\* notMatch(input, pattern, out): [result, out, last], out with the match
\* pushed, last the lastIndex of the sticky RegExp after the call.
notMatch(input, pattern, out, last) ==
  IF input.t = "undefined" THEN [result |-> TRUE, out |-> out, last |-> last]
  ELSE IF pattern.t = "string"
       THEN IF toLowerCase(input.s) = toLowerCase(pattern.s)
            THEN [result |-> FALSE, out |-> Append(out, <<input.s>>), last |-> last]
            ELSE [result |-> TRUE, out |-> out, last |-> last]
       ELSE LET match == RegExpMatch(input.s, pattern, last)
            IN IF match.found
               THEN [result |-> FALSE, out |-> Append(out, match.groups),
                     last |-> match.last]
               ELSE [result |-> TRUE, out |-> out, last |-> match.last]

\* argv[i] as a JavaScript value.
Token(argv, i) == IF i < Len(argv) THEN Str(argv[i + 1]) ELSE Undefined

\* The loop of matches() over this.pattern, from index i with out so far:
\* [ok, out, last], ok = FALSE as soon as one position does not match.
RECURSIVE matchesFrom(_, _, _, _, _)
matchesFrom(items, argv, i, out, last) ==
  IF i >= Len(items) THEN [ok |-> TRUE, out |-> out, last |-> last]
  ELSE LET r == notMatch(Token(argv, i), items[i + 1], out, last)
       IN IF r.result THEN [ok |-> FALSE, out |-> r.out, last |-> r.last]
          ELSE matchesFrom(items, argv, i + 1, r.out, r.last)

\* A Ref<RegExpMatchArray[] | null>.
NullRef == [isNull |-> TRUE, value |-> <<>>]
RefTo(v) == [isNull |-> FALSE, value |-> v]

\* The `return false` of a position that does not match is lost.
matches_ignoreMismatch(action, argv, result, last) ==
  IF length(action) = 0 THEN [ret |-> TRUE, result |-> result, last |-> last]
  ELSE LET m == matchesFrom(action.pattern.items, argv, 0, <<>>, last)
       IN [ret |-> TRUE, result |-> RefTo(m.out), last |-> m.last]

\* `result.value = out` is done before the positions are tried, so the
\* captures of a rule that fails part-way stay in the Ref.
matches_leakPartial(action, argv, result, last) ==
  IF length(action) = 0 THEN [ret |-> TRUE, result |-> result, last |-> last]
  ELSE LET m == matchesFrom(action.pattern.items, argv, 0, <<>>, last)
       IN [ret |-> m.ok, result |-> RefTo(m.out), last |-> m.last]

\* matches(argv, result): [ret, result, last], result the Ref after the call.
matches(action, argv, result, last) ==
  IF length(action) = 0 THEN [ret |-> TRUE, result |-> result, last |-> last]
  ELSE LET m == matchesFrom(action.pattern.items, argv, 0, <<>>, last)
       IN IF m.ok THEN [ret |-> TRUE, result |-> RefTo(m.out), last |-> m.last]
          ELSE [ret |-> FALSE, result |-> result, last |-> m.last]

----------------------------------------------------------------------------
(* class LBQ: find.  An Action of the registry is named by its index in    *)
(* this.actions; 0 stands for `found` being undefined.                     *)

Absent == [present |-> FALSE, action |-> 0, matches |-> <<>>, rest |-> <<>>]

\* The comparison of the lengths the wrong way round.
replaces_reversed(found, maxLength, action) ==
  found = 0 \/ maxLength > length(action)

\* `!found || maxLength < action.length`: the action is tried at all.
replaces(found, maxLength, action) ==
  found = 0 \/ maxLength < length(action)

\* The for loop of find() from the k-th action on.
RECURSIVE findLoop(_, _, _, _, _, _, _)
findLoop(acts, argv, k, maxLength, found, actionArgs, last) ==
  IF k > Len(acts)
  THEN [maxLength |-> maxLength, found |-> found, actionArgs |-> actionArgs,
        last |-> last]
  ELSE LET action == acts[k]
       IN IF replaces(found, maxLength, action)
          THEN LET m == matches(action, argv, actionArgs, last)
               IN IF m.ret
                  THEN findLoop(acts, argv, k + 1, length(action), k, m.result, m.last)
                  ELSE findLoop(acts, argv, k + 1, maxLength, found, m.result, m.last)
          ELSE findLoop(acts, argv, k + 1, maxLength, found, actionArgs, last)

\* The whole argv is returned as the rest.
find_noSlice(acts, argv, last) ==
  LET r == findLoop(acts, argv, 1, 0, 0, NullRef, last)
  IN [value |-> IF r.found # 0 /\ ~r.actionArgs.isNull
                THEN [present |-> TRUE,
                      action |-> r.found,
                      matches |-> r.actionArgs.value,
                      rest |-> argv]
                ELSE Absent,
      last |-> r.last]

\* find(argv): value is [Action, RegExpMatchArray[], string[]] or undefined,
\* last the lastIndex of the sticky RegExp after the call.
find(acts, argv, last) ==
  LET r == findLoop(acts, argv, 1, 0, 0, NullRef, last)
  IN [value |-> IF r.found # 0 /\ ~r.actionArgs.isNull
                THEN [present |-> TRUE,
                      action |-> r.found,
                      matches |-> r.actionArgs.value,
                      rest |-> SubSeq(argv, r.maxLength + 1, Len(argv))]
                ELSE Absent,
      last |-> r.last]

----------------------------------------------------------------------------
(* Definition objects handed to register(), by identity.  hasPattern and   *)
(* hasRun say whether the key is in the object.                            *)

Definition(hasPattern, pattern, hasRun, run, description) ==
  [hasPattern |-> hasPattern, pattern |-> pattern,
   hasRun |-> hasRun, run |-> run, description |-> description]

Objects ==
  << \* 1: { pattern: [], run: f1 }
     Definition(TRUE, Array(<<>>), TRUE, Fn(1), Undefined),
     \* 2: { pattern: ['Ab', /b/], run: f1, description: 'a' }
     Definition(TRUE, Array(<<Str(<<"A", "b">>), Re(2)>>), TRUE, Fn(1), Str(<<"a">>)),
     \* 3: { pattern: 'a' }
     Definition(TRUE, Single(Str(<<"a">>)), FALSE, Undefined, Undefined),
     \* 4: { pattern: 'a', run: 'a' }
     Definition(TRUE, Single(Str(<<"a">>)), TRUE, Str(<<"a">>), Undefined),
     \* 5: { pattern: 5, run: f1 }
     Definition(TRUE, Single(Num(5)), TRUE, Fn(1), Undefined),
     \* 6: { pattern: ['a', 5], run: f1 }
     Definition(TRUE, Array(<<Str(<<"a">>), Num(5)>>), TRUE, Fn(1), Undefined) >>

\* isActionDefinition(obj)
isActionDefinition(obj) ==
  IF ~IsFalsy(obj) /\ obj.t = "object"
     /\ Objects[obj.n].hasPattern /\ Objects[obj.n].hasRun
  THEN LET def == Objects[obj.n]
       IN /\ \/ ~def.pattern.isArray /\ IsStringOrRegExp(def.pattern.items[1])
             \/ /\ def.pattern.isArray
                /\ \A i \in DOMAIN def.pattern.items :
                     IsStringOrRegExp(def.pattern.items[i])
          /\ def.run.t = "function"
  ELSE FALSE

\* toString(value) of a description
toString(value) ==
  IF value.t = "string" THEN value
  ELSE IF value.t = "undefined" THEN Undefined
  ELSE IF value.t = "number" /\ value.n = 5 THEN Str(<<"5">>)
  ELSE Str(<<"?">>)

----------------------------------------------------------------------------
(* class LBQ: register.  A call returns [thrown, actions]: thrown is       *)
(* "none" or the class of the error, actions the registry after the call.  *)

\* The loop of _getRunAndDescription from index i on.
RECURSIVE getRunAndDescriptionLoop(_, _, _, _)
getRunAndDescriptionLoop(args, i, run, description) ==
  IF i >= Len(args) THEN [run |-> run, description |-> description]
  ELSE LET arg == At(args, i)
       IN IF arg.t = "function"
          THEN getRunAndDescriptionLoop(args, i + 1, arg, description)
          ELSE IF arg.t = "string"
               THEN getRunAndDescriptionLoop(args, i + 1, run, arg)
               ELSE getRunAndDescriptionLoop(args, i + 1, run, description)

\* The check `if (!run) throw` is missing.
getRunAndDescription_noThrow(args, start) ==
  LET r == getRunAndDescriptionLoop(args, start, Undefined, Undefined)
  IN [thrown |-> FALSE, run |-> r.run, description |-> r.description]

\* _getRunAndDescription(args, start): [thrown, run, description]
getRunAndDescription(args, start) ==
  LET r == getRunAndDescriptionLoop(args, start, Undefined, Undefined)
  IN [thrown |-> r.run.t = "undefined", run |-> r.run, description |-> r.description]

\* The scan `for (; end < args.length; end++)` of register(), from end on.
RECURSIVE scanEnd(_, _)
scanEnd(args, end) ==
  IF end >= Len(args) THEN end
  ELSE IF At(args, end).t = "function" THEN end
  ELSE IF ~IsStringOrRegExp(At(args, end)) THEN end
  ELSE scanEnd(args, end + 1)

\* A rule with the pattern of a registered rule takes that rule's place.
push_override(acts, action) ==
  IF \E k \in DOMAIN acts : acts[k].pattern = action.pattern
  THEN [k \in DOMAIN acts |->
          IF acts[k].pattern = action.pattern THEN action ELSE acts[k]]
  ELSE Append(acts, action)

\* this.actions.push(action)
push(acts, action) == Append(acts, action)

\* register(...args)
register(acts, args) ==
  LET first == At(args, 0)
  IN IF IsFalsy(first)
     THEN LET rd == getRunAndDescription(args, 0)
          IN IF rd.thrown THEN [thrown |-> "Error", actions |-> acts]
             ELSE [thrown |-> "none",
                   actions |-> push(acts, Action(Array(<<>>), rd.run, rd.description))]
     ELSE IF isActionDefinition(first)
     THEN LET def == Objects[first.n]
          IN [thrown |-> "none",
              actions |-> push(acts, Action(def.pattern, def.run,
                                            toString(def.description)))]
     ELSE IF IsStringOrRegExp(first)
     THEN LET end == scanEnd(args, 1)
              patterns == IF end = 1 THEN Single(first)
                          ELSE Array(SubSeq(args, 1, end))
              rd == getRunAndDescription(args, end)
          IN IF rd.thrown THEN [thrown |-> "Error", actions |-> acts]
             ELSE [thrown |-> "none",
                   actions |-> push(acts, Action(patterns, rd.run, rd.description))]
     ELSE [thrown |-> "TypeError", actions |-> acts]

----------------------------------------------------------------------------
(* The command line (cli.ts): options, then find and the handler call.     *)

\* The options that end the process before any action is looked for.
Options ==
  { <<"-", "h">>, <<"-", "-", "h", "e", "l", "p">>,
    <<"-", "v">>, <<"-", "V">>, <<"-", "-", "v", "e", "r", "s", "i", "o", "n">>,
    <<"-", "-", "e", "d", "i", "t">>,
    <<"-", "-", "l", "o", "c", "a", "t", "i", "o", "n">>,
    <<"-", "l">>, <<"-", "-", "l", "i", "s", "t">> }

\* help || version || edit || location || list: process.exit(0) is reached.
exitsEarly(args) ==
  \/ Len(args) = 0
  \/ Len(args) = 1 /\ args[1] \in Options

\* An argument of a handler call: a match array or a string.
MatchArg(m) == [kind |-> "match", groups |-> m, text |-> <<>>]
StringArg(t) == [kind |-> "string", groups |-> <<>>, text |-> t]

\* The rest is not passed on.
handlerArgs_noRest(found, restArgs) ==
  [i \in DOMAIN found |-> MatchArg(found[i])]

\* (...found, ...restArgs)
handlerArgs(found, restArgs) ==
  [i \in DOMAIN found |-> MatchArg(found[i])]
    \o [i \in DOMAIN restArgs |-> StringArg(restArgs[i])]

Invocation(run, args, failed) == [run |-> run, args |-> args, failed |-> failed]

\* A handler that failed is called once more.
run_retry(action, found, restArgs, fails) ==
  IF fails
  THEN [invoked |-> << Invocation(action.run, handlerArgs(found, restArgs), TRUE),
                       Invocation(action.run, handlerArgs(found, restArgs), TRUE) >>,
        exitCode |-> 1]
  ELSE [invoked |-> << Invocation(action.run, handlerArgs(found, restArgs), FALSE) >>,
        exitCode |-> 0]

\* try { await action.run(...matches, ...restArgs) } catch (err) { await
\* logErrorAndExit(err) }; fails says that the handler throws or rejects.
run(action, found, restArgs, fails) ==
  [invoked |-> << Invocation(action.run, handlerArgs(found, restArgs), fails) >>,
   exitCode |-> IF fails THEN 1 ELSE 0]

\* What follows lbq.find(args), actionAndArgs what it returned.
dispatch(acts, actionAndArgs, fails) ==
  IF ~actionAndArgs.value.present
  THEN [value |-> Absent, invoked |-> <<>>, exitCode |-> 1,
        last |-> actionAndArgs.last]
  ELSE [value |-> actionAndArgs.value,
        invoked |-> run(acts[actionAndArgs.value.action],
                        actionAndArgs.value.matches,
                        actionAndArgs.value.rest, fails).invoked,
        exitCode |-> run(acts[actionAndArgs.value.action],
                         actionAndArgs.value.matches,
                         actionAndArgs.value.rest, fails).exitCode,
        last |-> actionAndArgs.last]

\* The command line with the arguments args on the registry acts:
\* [value, invoked, exitCode, last], value what find returned.  find is
\* called once.
cli(acts, args, fails, last) ==
  IF exitsEarly(args)
  THEN [value |-> Absent, invoked |-> <<>>, exitCode |-> 0, last |-> last]
  ELSE CHOOSE r \in {dispatch(acts, actionAndArgs, fails) :
                       actionAndArgs \in {find(acts, args, last)}} : TRUE

----------------------------------------------------------------------------
(* The script-based variant: parse(args) runs the install script of the    *)
(* config file on its own register function and calls one command.         *)
(* commands is the object of parse in the order of its keys: a sequence of *)
(* [key, seq, callback].  The keys of the model are no array indices, so   *)
(* `for (const key in commands)` goes in insertion order.                  *)

\* String(e) of a RegExp: its source between slashes and its flags.
RegExpText(re) ==
  CASE re.n = 1 -> <<"/", ".", "+", "/">>
    [] re.n = 2 -> <<"/", "b", "/">>
    [] re.n = 3 -> <<"/", "^", "a", "(", ".", ")", "$", "/">>
    [] re.n = 4 -> <<"/", "a", "/", "y">>
    [] OTHER -> <<"/", "/">>

\* The loop of inspect from element i on, out the text so far.
RECURSIVE inspectLoop(_, _, _)
inspectLoop(seq, i, out) ==
  IF i > Len(seq) THEN [thrown |-> "none", key |-> out]
  ELSE LET e == seq[i]
           sep == IF out # <<>> THEN out \o <<",", " ">> ELSE out
       IN IF e.t = "string" THEN inspectLoop(seq, i + 1, sep \o e.s)
          ELSE IF e.t = "regexp" THEN inspectLoop(seq, i + 1, sep \o RegExpText(e))
          ELSE [thrown |-> "Error", key |-> <<>>]

\* inspect(seq): [thrown, key]
inspect(seq) == inspectLoop(seq, 1, <<>>)

Command(key, seq, callback) == [key |-> key, seq |-> seq, callback |-> callback]

\* commands[key] = [data, callback]: a key already there keeps its place.
setCommand(commands, key, data, callback) ==
  IF \E k \in DOMAIN commands : commands[k].key = key
  THEN [k \in DOMAIN commands |->
          IF commands[k].key = key THEN Command(key, data, callback)
          ELSE commands[k]]
  ELSE Append(commands, Command(key, data, callback))

\* register(...data) of parse, the R of the install script: [thrown, commands]
R(commands, data) ==
  LET callback == IF data = <<>> THEN Undefined ELSE data[Len(data)]
      seq == IF data = <<>> THEN <<>> ELSE SubSeq(data, 1, Len(data) - 1)
  IN IF callback.t # "function"
     THEN [thrown |-> "Error", commands |-> commands]
     ELSE IF inspect(seq).thrown # "none"
     THEN [thrown |-> "Error", commands |-> commands]
     ELSE [thrown |-> "none",
           commands |-> setCommand(commands, inspect(seq).key, seq, callback)]

\* mod.default(register): the calls of the script from call i on; the first
\* call that throws ends it.
RECURSIVE install(_, _, _)
install(script, i, commands) ==
  IF i > Len(script) THEN [thrown |-> "none", commands |-> commands]
  ELSE LET r == R(commands, script[i])
       IN IF r.thrown # "none" THEN r
          ELSE install(script, i + 1, r.commands)

\* Is sub found in s from index i (0-based) on?
RECURSIVE includesFrom(_, _, _)
includesFrom(s, sub, i) ==
  IF i + Len(sub) > Len(s) THEN FALSE
  ELSE IF SubSeq(s, i + 1, i + Len(sub)) = sub THEN TRUE
  ELSE includesFrom(s, sub, i + 1)

\* a.match(seq[i]) in parse: a string becomes new RegExp(string), which for
\* the letters of the model finds the string as a substring; undefined
\* becomes new RegExp(), which matches the empty string in every token.
\* The RegExps of a script have no g or y flag.
argMatch(a, p) ==
  CASE p.t = "undefined" -> [found |-> TRUE, groups |-> << <<>> >>]
    [] p.t = "string" ->
         IF includesFrom(a, p.s, 0)
         THEN [found |-> TRUE, groups |-> <<p.s>>]
         ELSE NoMatch
    [] OTHER -> StringMatch(a, p)

\* The commands from index k on are tried on the first n arguments;
\* the first one all of whose matches are truthy is the command.
RECURSIVE tryCommands(_, _, _, _)
tryCommands(commands, args, n, k) ==
  IF k > Len(commands) THEN Absent
  ELSE LET seq == commands[k].seq
           found == [i \in 1..n |-> argMatch(args[i], At(seq, i - 1))]
       IN IF \A i \in 1..n : found[i].found
          THEN [present |-> TRUE, action |-> k,
                matches |-> [i \in 1..n |-> found[i].groups],
                rest |-> SubSeq(args, n + 1, Len(args))]
          ELSE tryCommands(commands, args, n, k + 1)

\* all: for (let n = args.length; n >= 1; n--) for (const key in commands)
RECURSIVE selectFrom(_, _, _)
selectFrom(commands, args, n) ==
  IF n < 1 THEN Absent
  ELSE IF tryCommands(commands, args, n, 1).present
  THEN tryCommands(commands, args, n, 1)
  ELSE selectFrom(commands, args, n - 1)

\* parse(args) on an install script: [thrown, value], value the command that
\* is called (its index in commands) with its arguments, or Absent.
parse(script, args) ==
  LET r == install(script, 1, <<>>)
  IN IF r.thrown # "none" THEN [thrown |-> r.thrown, value |-> Absent]
     ELSE [thrown |-> "none", value |-> selectFrom(r.commands, args, Len(args))]

----------------------------------------------------------------------------
(* Inputs. *)

\* Sequences over S of length lo..hi.
SeqsOf(S, lo, hi) == UNION {[1..n -> S] : n \in lo..hi}

\* The tokens of an argv.
Tokens == {<<>>, <<"b">>, <<"a", "B">>}

Argvs == SeqsOf(Tokens, 0, MaxArgv)

\* The patterns registered when find() is explored.
Patterns == {Str(<<"A", "b">>), Re(3)}

\* register(p, run) and register(p, q, run) over Patterns, register(/.+/, run),
\* register('Ab', /.+/, run), register('', run), register({pattern: [], run})
\* and register({pattern: ['Ab', /b/], run, description}).
PatternCalls ==
  {ps \o <<Fn(1)>> : ps \in SeqsOf(Patterns, 1, 2)}
    \cup {<<Re(1), Fn(1)>>, <<Str(<<"A", "b">>), Re(1), Fn(1)>>,
          <<Str(<<>>), Fn(1)>>, <<Obj(1)>>, <<Obj(2)>>}

\* The arguments of register() when its call shapes are explored.  An object
\* is typeof 'object' wherever it stands and is looked into only as args[0];
\* past args[0] it is handled as the number is.
PlainValues ==
  {Fn(1), Fn(2), Str(<<"a">>), Str(<<>>), Re(1), Num(5), Undefined}

DefinitionCalls ==
  {<<Obj(k)>> \o rest : k \in DOMAIN Objects, rest \in {<<>>, <<Fn(2)>>}}

RegisterArgs == SeqsOf(PlainValues, 0, MaxArgs) \cup DefinitionCalls

----------------------------------------------------------------------------
(* The state: this.actions of one LBQ, the last call made on it, what that *)
(* call returned or threw, the lastIndex of the sticky RegExp, and of the  *)
(* last run of the command line the handler calls made and the exit code.  *)
(* config is the install script of the script-based variant: the argument  *)
(* lists of its calls of R, in order.                                      *)

Returned(v) == [thrown |-> "none", value |-> v]
Threw(e) == [thrown |-> e, value |-> Absent]

\* new LBQ()
Init ==
  /\ actions = <<>>
  /\ call = [op |-> "new", args |-> <<>>, argv |-> <<>>]
  /\ outcome = Returned(Absent)
  /\ lastIndex = 0
  /\ invoked = <<>>
  /\ exitCode = 0
  /\ config = <<>>

\* lbq.register(...args)
Register(args) ==
  LET r == register(actions, args)
  IN /\ actions' = r.actions
     /\ call' = [op |-> "register", args |-> args, argv |-> <<>>]
     /\ outcome' = IF r.thrown = "none" THEN Returned(Absent) ELSE Threw(r.thrown)
     /\ UNCHANGED <<lastIndex, invoked, exitCode, config>>

\* lbq.find(argv)
Find(argv) ==
  LET r == find(actions, argv, lastIndex)
  IN /\ call' = [op |-> "find", args |-> <<>>, argv |-> argv]
     /\ outcome' = Returned(r.value)
     /\ lastIndex' = r.last
     /\ UNCHANGED <<actions, invoked, exitCode, config>>

\* The registry is kept within a bound; a call that throws is always possible.
RegisterPatterns ==
  \E args \in PatternCalls : Register(args) /\ Len(actions') <= MaxActions

FindAny == \E argv \in Argvs : Find(argv)

Next == RegisterPatterns \/ FindAny

Spec == Init /\ [][Next]_vars

RegisterAny ==
  \E args \in RegisterArgs : Register(args) /\ Len(actions') <= MaxRegistered

NextReg == RegisterAny \/ FindAny

SpecReg == Init /\ [][NextReg]_vars

\* The command line is run with an argv of tokens or with one option.
CliArgvs == Argvs \cup { << <<"-", "h">> >>, << <<"-", "l">> >> }

\* lbq ...argv
Cli(argv, fails) ==
  \E r \in {cli(actions, argv, fails, lastIndex)} :
     /\ call' = [op |-> "cli", args |-> <<>>, argv |-> argv]
     /\ outcome' = Returned(r.value)
     /\ invoked' = r.invoked
     /\ exitCode' = r.exitCode
     /\ lastIndex' = r.last
     /\ UNCHANGED <<actions, config>>

CliAny == \E argv \in CliArgvs, fails \in BOOLEAN : Cli(argv, fails)

NextCli == RegisterPatterns \/ CliAny

SpecCli == Init /\ [][NextCli]_vars

\* The calls of R an install script is made of, the default ones among them:
\* R('a', f1), R('a', /.+/, f2), R('a', f3), and R(/^a(.)$/, 'b', f1),
\* R('', 'a', f2), R(f3), R('a'), R(5, f1).
ScriptCalls ==
  { <<Str(<<"a">>), Fn(1)>>,
    <<Str(<<"a">>), Re(1), Fn(2)>>,
    <<Str(<<"a">>), Fn(3)>>,
    <<Re(3), Str(<<"b">>), Fn(1)>>,
    <<Str(<<>>), Str(<<"a">>), Fn(2)>>,
    <<Fn(3)>>,
    <<Str(<<"a">>)>>,
    <<Num(5), Fn(1)>> }

ParseArgs == SeqsOf({<<"a">>, <<"b">>, <<"a", "B">>}, 0, MaxParseArgs)

\* One more call of R is written to the install script.
Install(data) ==
  /\ Len(config) < MaxCommands
  /\ config' = Append(config, data)
  /\ call' = [op |-> "config", args |-> data, argv |-> <<>>]
  /\ outcome' = Returned(Absent)
  /\ UNCHANGED <<actions, lastIndex, invoked, exitCode>>

\* parse(args)
Parse(args) ==
  LET r == parse(config, args)
  IN /\ call' = [op |-> "parse", args |-> <<>>, argv |-> args]
     /\ outcome' = IF r.thrown # "none" THEN Threw(r.thrown) ELSE Returned(r.value)
     /\ UNCHANGED <<actions, lastIndex, invoked, exitCode, config>>

InstallAny == \E data \in ScriptCalls : Install(data)

ParseAny == \E args \in ParseArgs : Parse(args)

NextScript == InstallAny \/ ParseAny

SpecScript == Init /\ [][NextScript]_vars

\* register(/a/y, run), register(/^a(.)$/, run), register(/^a(.)$/, /a/y, run):
\* rules that hold the sticky RegExp.
StickyCalls ==
  {<<Re(4), Fn(1)>>, <<Re(3), Fn(1)>>, <<Re(3), Re(4), Fn(1)>>}

RegisterSticky ==
  \E args \in StickyCalls : Register(args) /\ Len(actions') <= MaxActions

NextSticky == RegisterSticky \/ FindAny

SpecSticky == Init /\ [][NextSticky]_vars

----------------------------------------------------------------------------
(* What the properties below speak of: a pattern accepting a token and a   *)
(* rule matching an argv, stated on the patterns and the tokens, not by    *)
(* the loops of matches() and find().                                      *)

PatternsOf(action) == action.pattern.items

Accepts(pattern, token) ==
  IF pattern.t = "string"
  THEN toLowerCase(pattern.s) = toLowerCase(token)
  ELSE StringMatch(token, pattern).found

\* The captured groups of a pattern that accepts the token.
GroupsOf(pattern, token) ==
  IF pattern.t = "string" THEN <<token>> ELSE StringMatch(token, pattern).groups

RuleMatches(action, argv) ==
  /\ Len(PatternsOf(action)) <= Len(argv)
  /\ \A i \in DOMAIN PatternsOf(action) : Accepts(PatternsOf(action)[i], argv[i])

Matching(acts, argv) == {k \in DOMAIN acts : RuleMatches(acts[k], argv)}

\* The matching rules of the greatest length.
Longest(acts, argv) ==
  {k \in Matching(acts, argv) :
     \A j \in Matching(acts, argv) :
       Len(PatternsOf(acts[j])) <= Len(PatternsOf(acts[k]))}

Min(S) == CHOOSE k \in S : \A j \in S : k <= j

FindCalled == call.op = "find"
returned == outcome.value

----------------------------------------------------------------------------
(* Properties of find(). *)

\* C1: find returns a longest match: the rule it returns matches argv and no
\* matching rule is longer; when two matching rules differ in length, a rule
\* is returned and it is not the shorter one.
C1_LongestMatch ==
  FindCalled =>
    /\ returned.present => returned.action \in Longest(actions, call.argv)
    /\ \A j, k \in Matching(actions, call.argv) :
         Len(PatternsOf(actions[j])) > Len(PatternsOf(actions[k]))
           => returned.present /\ returned.action # k

\* A rule of length 1 and a later rule of length 2 both match; the later,
\* longer one is returned.
C1_Witness ==
  /\ FindCalled
  /\ Len(actions) = 2
  /\ Matching(actions, call.argv) = {1, 2}
  /\ Len(PatternsOf(actions[1])) = 1
  /\ Len(PatternsOf(actions[2])) = 2
  /\ returned.present /\ returned.action = 2

\* C2: among the matching rules of the greatest length, find returns the one
\* registered first.
C2_FirstOfLongest ==
  FindCalled /\ Cardinality(Longest(actions, call.argv)) >= 2
    => returned.present /\ returned.action = Min(Longest(actions, call.argv))

\* C3: with a zero-length rule registered and no longer rule matching, find
\* returns the first zero-length rule, no captures and the whole argv.
C3_CatchAll ==
  FindCalled
  /\ (\E k \in DOMAIN actions : PatternsOf(actions[k]) = <<>>)
  /\ (\A k \in Matching(actions, call.argv) : PatternsOf(actions[k]) = <<>>)
    => /\ returned.present
       /\ returned.action = Min({k \in DOMAIN actions : PatternsOf(actions[k]) = <<>>})
       /\ returned.matches = <<>>
       /\ returned.rest = call.argv

\* C4: the leftover of an outcome is the suffix of argv from index rule.length
\* on, so captures and leftover together are as long as argv.
C4_Leftover ==
  FindCalled /\ returned.present =>
    LET L == Len(PatternsOf(actions[returned.action]))
    IN /\ L <= Len(call.argv)
       /\ Len(returned.rest) = Len(call.argv) - L
       /\ \A i \in DOMAIN returned.rest : returned.rest[i] = call.argv[L + i]
       /\ Len(returned.matches) + Len(returned.rest) = Len(call.argv)

\* A rule whose pattern has two groups is returned with a token left over.
C4_Witness ==
  /\ FindCalled /\ returned.present
  /\ returned.rest # <<>>
  /\ \E i \in DOMAIN returned.matches : Len(returned.matches[i]) = 2

\* C5: when no registered rule matches argv, find returns undefined.
C5_NoMatchAbsent ==
  FindCalled /\ Matching(actions, call.argv) = {} => returned = Absent

\* Two rules are registered, argv has tokens, none matches: undefined.
C5_Witness ==
  /\ FindCalled
  /\ Len(actions) = 2
  /\ Len(call.argv) = 2
  /\ Matching(actions, call.argv) = {}
  /\ returned = Absent

\* C6: find never returns a rule that has more patterns than argv has tokens.
C6_ShortArgv ==
  FindCalled =>
    \A k \in DOMAIN actions :
      Len(PatternsOf(actions[k])) >= 1 /\ Len(call.argv) < Len(PatternsOf(actions[k]))
        => ~(returned.present /\ returned.action = k)

\* The only rule has two patterns, argv is one token that its first pattern
\* accepts: the rule is not returned.
C6_Witness ==
  /\ FindCalled
  /\ Len(actions) = 1
  /\ Len(PatternsOf(actions[1])) = 2
  /\ Len(call.argv) = 1
  /\ Accepts(PatternsOf(actions[1])[1], call.argv[1])
  /\ ~returned.present

\* C7: a literal position of the returned rule equals its token up to case
\* and captures [token]; a rule of literals alone is matched exactly when each
\* literal equals its token up to case.
C7_LiteralCaseInsensitive ==
  FindCalled =>
    /\ returned.present =>
         \A i \in DOMAIN PatternsOf(actions[returned.action]) :
           PatternsOf(actions[returned.action])[i].t = "string" =>
             /\ toLowerCase(PatternsOf(actions[returned.action])[i].s)
                  = toLowerCase(call.argv[i])
             /\ returned.matches[i] = <<call.argv[i]>>
    /\ Len(actions) = 1 /\ Len(call.argv) = 1
       /\ Len(PatternsOf(actions[1])) = 1 /\ PatternsOf(actions[1])[1].t = "string"
         => (returned.present
               <=> toLowerCase(PatternsOf(actions[1])[1].s) = toLowerCase(call.argv[1]))

\* The literal 'Ab' is matched by the token 'aB', which is what is captured.
C7_Witness ==
  /\ FindCalled /\ returned.present
  /\ PatternsOf(actions[returned.action]) = <<Str(<<"A", "b">>)>>
  /\ call.argv = << <<"a", "B">> >>
  /\ returned.matches = << << <<"a", "B">> >> >>

----------------------------------------------------------------------------
(* Properties of register(), stated on the step that makes the call. *)

\* The call carries a callable handler: an argument that is a function, or a
\* definition object as args[0] whose run is one.
HasCallable(args) ==
  \/ \E i \in DOMAIN args : args[i].t = "function"
  \/ /\ args # <<>> /\ args[1].t = "object"
     /\ Objects[args[1].n].hasRun /\ Objects[args[1].n].run.t = "function"

\* register(run) and register(run, description)
RunFirst(args) ==
  /\ Len(args) \in {1, 2}
  /\ args[1].t = "function"
  /\ Len(args) = 2 => args[2].t = "string"

\* An argument that stands before the first function is neither a string nor
\* a RegExp (a definition object as args[0] is told by BadDefinition).
BadPositional(args) ==
  /\ args # <<>> /\ args[1].t # "object"
  /\ \E h \in DOMAIN args :
       /\ args[h].t = "function"
       /\ \E i \in 1..(h - 1) :
            /\ \A j \in 1..i : args[j].t # "function"
            /\ ~IsStringOrRegExp(args[i])

\* args[0] is a definition object whose pattern is neither a string, a RegExp
\* nor an array of those.
BadDefinition(args) ==
  /\ args # <<>> /\ args[1].t = "object"
  /\ LET def == Objects[args[1].n]
     IN /\ def.hasPattern
        /\ \E i \in DOMAIN def.pattern.items : ~IsStringOrRegExp(def.pattern.items[i])

\* C8: register(run) and register(run, description) do not throw and append
\* one rule with no patterns and run as its handler.
C8_RunFirstRegisters ==
  [][call'.op = "register" /\ RunFirst(call'.args)
       => /\ outcome'.thrown = "none"
          /\ Len(actions') = Len(actions) + 1
          /\ SubSeq(actions', 1, Len(actions)) = actions
          /\ PatternsOf(actions'[Len(actions')]) = <<>>
          /\ actions'[Len(actions')].run = call'.args[1]]_vars

\* C9: a register call without a callable handler throws and leaves the
\* registry as it was.
C9_NoCallableThrows ==
  [][call'.op = "register" /\ ~HasCallable(call'.args)
       => outcome'.thrown # "none" /\ actions' = actions]_vars

\* A call with arguments and no handler among them has thrown on a registry
\* that holds a rule.
C9_Witness ==
  /\ call.op = "register"
  /\ call.args # <<>>
  /\ ~HasCallable(call.args)
  /\ outcome.thrown # "none"
  /\ actions # <<>>

\* C10: a register call with an unsupported pattern argument throws and
\* appends no rule.
C10_BadPatternThrows ==
  [][call'.op = "register" /\ (BadPositional(call'.args) \/ BadDefinition(call'.args))
       => outcome'.thrown # "none" /\ actions' = actions]_vars

\* The index of the first function among args (there is one).
FirstCallable(args) ==
  CHOOSE h \in DOMAIN args :
    args[h].t = "function" /\ \A j \in 1..(h - 1) : args[j].t # "function"

\* A positional call: strings and RegExps, at least one, then a function,
\* then whatever follows.
Positional(args) ==
  /\ \E h \in DOMAIN args : args[h].t = "function"
  /\ FirstCallable(args) >= 2
  /\ \A j \in 1..(FirstCallable(args) - 1) : IsStringOrRegExp(args[j])

\* C12: a positional register call creates the rule whose patterns are the
\* strings and RegExps before the first function, in order, and whose handler
\* is that first function, whatever follows it.
C12_FirstCallableIsHandler ==
  [][call'.op = "register" /\ Positional(call'.args)
       => /\ outcome'.thrown = "none"
          /\ actions' # <<>>
          /\ PatternsOf(actions'[Len(actions')])
               = SubSeq(call'.args, 1, FirstCallable(call'.args) - 1)
          /\ actions'[Len(actions')].run = call'.args[FirstCallable(call'.args)]]_vars

\* register(pattern, run) and register(pattern, run, description)
SinglePattern(args) ==
  /\ Len(args) \in {2, 3}
  /\ IsStringOrRegExp(args[1])
  /\ args[2].t = "function"
  /\ Len(args) = 3 => args[3].t = "string"

\* C13: register(pattern, run) and register(pattern, run, description) create
\* a rule of length 1 whose pattern is the given string or RegExp.
C13_SinglePattern ==
  [][call'.op = "register" /\ SinglePattern(call'.args)
       => /\ outcome'.thrown = "none"
          /\ actions' # <<>>
          /\ length(actions'[Len(actions')]) = 1
          /\ PatternsOf(actions'[Len(actions')]) = <<call'.args[1]>>]_vars

\* C11: a register call that does not throw appends exactly one rule at the
\* end and leaves the rules registered before, and their order, as they were,
\* also when a rule with the same pattern is registered already.
C11_AppendsOne ==
  [][call'.op = "register" /\ outcome'.thrown = "none"
       => /\ Len(actions') = Len(actions) + 1
          /\ SubSeq(actions', 1, Len(actions)) = actions]_vars

\* A second rule with the pattern of the first has been registered.
C11_Witness ==
  /\ call.op = "register" /\ outcome.thrown = "none"
  /\ Len(actions) = 2
  /\ actions[1].pattern = actions[2].pattern

----------------------------------------------------------------------------
(* The captures of find(). *)

\* C16: the captures of an outcome are those of the returned rule: one per
\* pattern of the rule, each the groups of that pattern on its token.
C16_CapturesOfReturned ==
  FindCalled /\ returned.present =>
    LET ps == PatternsOf(actions[returned.action])
    IN /\ Len(ps) <= Len(call.argv)
       /\ Len(returned.matches) = length(actions[returned.action])
       /\ \A i \in DOMAIN ps :
            /\ Accepts(ps[i], call.argv[i])
            /\ returned.matches[i] = GroupsOf(ps[i], call.argv[i])

\* The first rule is returned with its two groups after a longer second rule
\* matched its first pattern and failed on its second.
C16_Witness ==
  /\ FindCalled /\ returned.present /\ returned.action = 1
  /\ Len(actions) = 2 /\ Len(call.argv) = 2
  /\ Len(PatternsOf(actions[2])) = 2
  /\ Accepts(PatternsOf(actions[2])[1], call.argv[1])
  /\ ~RuleMatches(actions[2], call.argv)
  /\ Len(returned.matches[1]) = 2

----------------------------------------------------------------------------
(* find() as a function of the registry and argv. *)

\* C18: a find call leaves the rule sequence as it was, and a find call that
\* follows a find call with the same argv returns what that one returned.
C18_FindPure ==
  [][call'.op = "find"
       => /\ actions' = actions
          /\ call.op = "find" /\ call.argv = call'.argv => outcome' = outcome]_vars

----------------------------------------------------------------------------
(* Properties of the command line. *)

\* The command line went on to look for an action.
Dispatched == call.op = "cli" /\ ~exitsEarly(call.argv)

\* C14: the handler of the returned rule is called with the groups of each
\* pattern position, in order, and then the leftover tokens, in order: as
\* many arguments as argv has tokens.
C14_HandlerArguments ==
  Dispatched /\ invoked # <<>> =>
    LET rule == actions[returned.action]
        given == invoked[1].args
        L == Len(PatternsOf(rule))
    IN /\ invoked[1].run = rule.run
       /\ Len(given) = Len(call.argv)
       /\ \A i \in 1..Len(given) :
            IF i <= L
            THEN given[i] = MatchArg(GroupsOf(PatternsOf(rule)[i], call.argv[i]))
            ELSE given[i] = StringArg(call.argv[i])

\* A handler was called with the two groups of its pattern and one token.
C14_Witness ==
  /\ Dispatched /\ Len(invoked) = 1
  /\ Len(invoked[1].args) = 2
  /\ invoked[1].args[1].kind = "match" /\ Len(invoked[1].args[1].groups) = 2
  /\ invoked[1].args[2].kind = "string"

\* C17: a run of the command line calls one handler when find returned a
\* rule, with exit code 1 when that call failed, and calls none and exits
\* with 1 when find returned undefined; no handler is called twice.
C17_AtMostOneHandler ==
  Dispatched =>
    /\ Len(invoked) <= 1
    /\ returned.present => Len(invoked) = 1 /\ (invoked[1].failed => exitCode = 1)
    /\ ~returned.present => invoked = <<>> /\ exitCode = 1

\* The handler failed: it was called once and the exit code is 1.
C17_Witness ==
  /\ Dispatched /\ returned.present
  /\ Len(invoked) = 1 /\ invoked[1].failed
  /\ exitCode = 1

----------------------------------------------------------------------------
(* Properties of the script-based variant. *)

\* The commands the install script of config registers.
Installed == install(config, 1, <<>>).commands

\* A command matches the arguments: it has no more patterns than there are
\* arguments and each pattern matches the argument at its position.
CommandMatches(command, args) ==
  /\ Len(command.seq) <= Len(args)
  /\ \A i \in DOMAIN command.seq : argMatch(args[i], command.seq[i]).found

MatchingCommands == {k \in DOMAIN Installed : CommandMatches(Installed[k], call.argv)}

\* C15: when several commands of the script match the arguments of parse,
\* the one that is called is a matching command with the most patterns.
C15_LongestCommandCalled ==
  call.op = "parse" /\ outcome.thrown = "none"
    /\ Cardinality(MatchingCommands) >= 2 =>
    /\ returned.present
    /\ returned.action \in MatchingCommands
    /\ \A k \in MatchingCommands :
         Len(Installed[k].seq) <= Len(Installed[returned.action].seq)

====
